---- MODULE Spec2Model ----
(***************************************************************************)
(* The segment driver of the segmented sieve of Eratosthenes               *)
(* (SieveOfEratosthenes.cpp): construction, per segment pre-sieving and    *)
(* cross-off, the window walk of sieve(prime) and finish(), the start and  *)
(* stop edge masks and the release of the owned resources.                 *)
(*                                                                         *)
(* The bitmap sieve_ is the set of its set bit positions k, byte k \div 8, *)
(* bit k % 8.  Spec runs the driver with its bitmap on values below 2^31   *)
(* (the integers of the model checker); SpecW runs the window arithmetic   *)
(* of the same code on full 64 bit values, kept as three 24 bit limbs.     *)
(***************************************************************************)
EXTENDS Integers, Sequences, FiniteSets, TLC

\* ---------------------------------------------------------------- constants

NUMBERS_PER_BYTE == 30

bitValues == <<7, 11, 13, 17, 19, 23, 29, 31>>

BYTES_PER_KIB == 1024

MIN_SIEVE_KIB == 1

MAX_SIEVE_KIB == 4096

MIN_START == 7

\* config::FACTOR_ERATSMALL and config::FACTOR_ERATMEDIUM as fractions
FACTOR_ERATSMALL_NUM == 3

FACTOR_ERATSMALL_DEN == 4

FACTOR_ERATMEDIUM == 9

\* ------------------------------------------------------------------- bounds

\* widest interval stop - start of the edge sweep
MaxSpan == 34

\* largest start of the edge sweep
MaxEdgeStart == 37

\* ------------------------------------------------------------------ imath.h

Max(a, b) == IF a >= b THEN a ELSE b

CeilDiv(a, b) == (a + b - 1) \div b

getInBetween(lo, x, hi) == IF x < lo THEN lo ELSE IF x > hi THEN hi ELSE x

RECURSIVE floorPowerOf2(_)
floorPowerOf2(x) == IF x <= 1 THEN x ELSE 2 * floorPowerOf2(x \div 2)

\* floor square root by bisection: lo*lo <= n < hi*hi throughout
RECURSIVE SqrtSearch(_, _, _)
SqrtSearch(n, lo, hi) ==
  IF hi - lo <= 1 THEN lo
  ELSE LET mid == (lo + hi) \div 2
       IN IF mid * mid <= n THEN SqrtSearch(n, mid, hi) ELSE SqrtSearch(n, lo, mid)

isqrt(n) == SqrtSearch(n, 0, 46340)

isquare(x) == x * x

\* -------------------------------------------------------- reference notions

IsPrime(n) == n >= 2 /\ \A d \in 2..isqrt(n) : n % d # 0

PrimesIn(a, b) == {n \in a..b : IsPrime(n)}

RECURSIVE NextPrime(_)
NextPrime(n) == IF IsPrime(n + 1) THEN n + 1 ELSE NextPrime(n + 1)

\* ---------------------------------------------------- bitmap representation

\* the integer of bit k of a bitmap whose byte 0 starts at low
Decode(k, low) == low + (k \div 8) * NUMBERS_PER_BYTE + bitValues[(k % 8) + 1]

DecodeAll(bits, low) == {Decode(k, low) : k \in bits}

OnWheel(v) == (v % 30) \in {1, 7, 11, 13, 17, 19, 23, 29}

BitOfResidue(r) == CHOOSE j \in 0..7 : bitValues[j + 1] = r

\* the bit position of the wheel integer v >= low + 7
BitIndex(v, low) ==
  LET d == v - low - 7
  IN (d \div 30) * 8 + BitOfResidue((d % 30) + 7)

ByteBits(i) == (8 * i)..(8 * i + 7)

\* the bits of the first size bytes
Window(bits, size) == {k \in bits : k < 8 * size}

\* ------------------------------------------------------------- driver: code

getByteRemainder(n) ==
  LET r == n % NUMBERS_PER_BYTE
  IN IF r <= 1 THEN r + NUMBERS_PER_BYTE ELSE r

\* sieveSize_ in bytes, a power of two of KiB
SieveBytes(kib) ==
  getInBetween(MIN_SIEVE_KIB, floorPowerOf2(kib), MAX_SIEVE_KIB) * BYTES_PER_KIB

InitialSegmentLow(st) == st - getByteRemainder(st)

\* variant: the last integer taken as segmentLow_ + sieveSize_ * 30 - 1
SegmentHighBelow(low, size) == low + size * NUMBERS_PER_BYTE - 1

\* segmentHigh_ = segmentLow_ + sieveSize_ * NUMBERS_PER_BYTE + 1
SegmentHighOf(low, size) == low + size * NUMBERS_PER_BYTE + 1

\* variant: the + 1 of segmentHigh_ carried into the step
SegmentSpanOffByOne(size) == size * NUMBERS_PER_BYTE + 1

\* the length of the window step, sieveSize_ * NUMBERS_PER_BYTE
SegmentSpan(size) == size * NUMBERS_PER_BYTE

LimitEratSmall(size) == (size * FACTOR_ERATSMALL_NUM) \div FACTOR_ERATSMALL_DEN

LimitEratMedium(size) == size * FACTOR_ERATMEDIUM

Resources == {"sieve", "preSieve", "eratSmall", "eratMedium", "eratBig"}

\* the order in which the constructor and init() acquire
AcquireOrder == <<"sieve", "preSieve", "eratSmall", "eratMedium", "eratBig">>

\* variant: EratMedium created under the condition of EratBig
WantedWrongLimit(r, sq, lps, les, lem) ==
  CASE r = "sieve"      -> TRUE
    [] r = "preSieve"   -> TRUE
    [] r = "eratSmall"  -> sq > lps
    [] r = "eratMedium" -> sq > lem
    [] r = "eratBig"    -> sq > lem

\* the condition under which init() creates a resource
Wanted(r, sq, lps, les, lem) ==
  CASE r = "sieve"      -> TRUE
    [] r = "preSieve"   -> TRUE
    [] r = "eratSmall"  -> sq > lps
    [] r = "eratMedium" -> sq > les
    [] r = "eratBig"    -> sq > lem

\* variant: cleanUp() without delete eratMedium_
cleanUpLeak(p, rel) ==
  [r \in Resources |-> rel[r] + (IF p[r] /\ r # "eratMedium" THEN 1 ELSE 0)]

\* cleanUp(): delete every pointer, the pointers keep their values
cleanUp(p, rel) == [r \in Resources |-> rel[r] + (IF p[r] THEN 1 ELSE 0)]

\* ---------------------------------------------------------------- PreSieve

PreSievePrimes(limit) == {q \in {7, 11, 13, 17, 19, 23} : q <= limit}

\* PreSieve::doIt fills the first size bytes, later bytes keep their content
doIt(bits, size, low, limit) ==
  {k \in bits : k >= 8 * size}
    \cup {k \in 0..(8 * size - 1) :
            \A q \in PreSievePrimes(limit) : Decode(k, low) % q # 0}

\* while (bitValues_[i] < remainder) i++;
RECURSIVE StartShift(_, _)
StartShift(i, remainder) ==
  IF bitValues[i + 1] < remainder THEN StartShift(i + 1, remainder) ELSE i

\* the guard of the start mask
IsFirstSegment(low, st) == low <= st

\* variant: the start mask without the reset of byte 0
MaskStartNoReset(bits, st, limit) ==
  bits \ (0..(StartShift(0, getByteRemainder(st)) - 1))

\* sieve_[0] = 0xff when start_ <= limitPreSieve_, then sieve_[0] &= 0xff << i
MaskStart(bits, st, limit) ==
  LET reset == IF st <= limit THEN bits \cup ByteBits(0) ELSE bits
      i == StartShift(0, getByteRemainder(st))
  IN reset \ (0..(i - 1))

preSieve(bits, size, low, st, limit) ==
  LET filled == doIt(bits, size, low, limit)
  IN IF IsFirstSegment(low, st) THEN MaskStart(filled, st, limit) ELSE filled

\* ------------------------------------------------------------------- tiers

\* the first multiple of prime that is >= prime^2 and >= segmentLow
FirstMultiple(prime, low) == prime * Max(prime, CeilDiv(low, prime))

SievingPrime(prime, low) == [prime |-> prime, multiple |-> FirstMultiple(prime, low)]

\* the bits of the multiples of the tier's primes inside the segment
Hits(tier, size, low) ==
  UNION { LET from == Max(r.multiple, low + 7)
              to == SegmentHighOf(low, size)
          IN {BitIndex(r.prime * m, low) :
                m \in {n \in CeilDiv(from, r.prime)..(to \div r.prime) : OnWheel(n)}}
        : r \in tier }

crossOff(bits, tier, size, low) == bits \ Hits(tier, size, low)

\* the tiers crossOffMultiples() invokes, in its order
crossOffOrder(p) ==
  SelectSeq(<<"eratSmall", "eratMedium", "eratBig">>, LAMBDA r : p[r])

\* variant: crossOffMultiples() without the call of eratSmall_
crossOffMultiplesNoSmall(bits, p, small, medium, big, size, low) ==
  LET s2 == IF p["eratMedium"] THEN crossOff(bits, medium, size, low) ELSE bits
  IN IF p["eratBig"] THEN crossOff(s2, big, size, low) ELSE s2

crossOffMultiples(bits, p, small, medium, big, size, low) ==
  LET s1 == IF p["eratSmall"] THEN crossOff(bits, small, size, low) ELSE bits
      s2 == IF p["eratMedium"] THEN crossOff(s1, medium, size, low) ELSE s1
  IN IF p["eratBig"] THEN crossOff(s2, big, size, low) ELSE s2

\* --------------------------------------------------------------- finish()

\* variant: the loop stops one integer early
MoreSegmentsEarly(high, sp) == high + 1 < sp

\* while (segmentHigh_ < stop_)
MoreSegments(high, sp) == high < sp

\* static_cast<uint_t>((stop_ - remainder) - segmentLow_) / NUMBERS_PER_BYTE,
\* the cast wraps a negative difference to 2^32 + difference
CastDiv30(diff) ==
  IF diff >= 0 THEN diff \div NUMBERS_PER_BYTE
  ELSE 143165576 + ((diff + 16) \div NUMBERS_PER_BYTE)

ShrinkDiff(sp, low) == (sp - getByteRemainder(sp)) - low

\* variant: the final size without the + 1
FinalSieveSizeShort(sp, low) == CastDiv30(ShrinkDiff(sp, low))

FinalSieveSize(sp, low) == CastDiv30(ShrinkDiff(sp, low)) + 1

\* variant: the scan stops at bitValues_[i] >= remainder
RECURSIVE StopShiftInclusive(_, _)
StopShiftInclusive(i, remainder) ==
  IF i < 8 /\ ~(bitValues[i + 1] >= remainder) THEN StopShiftInclusive(i + 1, remainder) ELSE i

\* for (i = 0; i < 8; i++) if (bitValues_[i] > remainder) break;
RECURSIVE StopShift(_, _)
StopShift(i, remainder) ==
  IF i < 8 /\ ~(bitValues[i + 1] > remainder) THEN StopShift(i + 1, remainder) ELSE i

\* sieve_[sieveSize_ - 1] &= ~(0xff << i)
MaskStop(bits, size, sp) ==
  LET i == StopShift(0, getByteRemainder(sp))
  IN bits \ {8 * (size - 1) + j : j \in i..7}

\* for (uint_t j = sieveSize_; j % 8 != 0; j++) sieve_[j] = 0;
RECURSIVE ZeroFill(_)
ZeroFill(j) == IF j % 8 # 0 THEN {j} \cup ZeroFill(j + 1) ELSE {}

\* ------------------------------------------------------------------ inputs

Arg(st, sp, kib, lim) == [start |-> st, stop |-> sp, sieveSize |-> kib, preSieve |-> lim]

\* every start residue and every short interval around the first bytes
EdgeArgs ==
  {Arg(st, st + d, 1, lim) :
     st \in MIN_START..MaxEdgeStart, d \in 0..MaxSpan, lim \in {13, 23}}

\* violated preconditions
BadArgs == {Arg(5, 10, 1, 13), Arg(6, 6, 1, 19), Arg(20, 10, 1, 13)}

\* sieve sizes that are coerced
SizeArgs == {Arg(7, 100, kib, 19) : kib \in {0, 3, 4096, 5000}}

\* intervals of several segments and intervals whose roots reach each tier
LongArgs ==
  {Arg(7, 30721, 1, 13), Arg(7, 30722, 1, 13), Arg(30, 61441, 1, 17),
   Arg(7, 61441, 2, 19), Arg(30719, 30723, 1, 13), Arg(19, 62000, 1, 19),
   Arg(599990, 600100, 1, 13), Arg(85999000, 86000050, 1, 23),
   Arg(86000000, 86000010, 2, 19)}

Args == EdgeArgs \cup BadArgs \cup SizeArgs \cup LongArgs

\* ------------------------------------------------------------------- state

VARIABLES args, pc, error, start, stop, limitPreSieve, sqrtStop, sieveSize,
          sieveLen, segmentLow, segmentHigh, limitEratSmall, limitEratMedium,
          sieve, ptr, acquired, released, eratSmall, eratMedium, eratBig,
          nextPrime, nullDeref, delivered, reported, startMasks, crossed,
          shrinkDiff, unmasked, written, overflow

fields == <<start, stop, limitPreSieve, sqrtStop, sieveLen,
            limitEratSmall, limitEratMedium>>

window == <<sieveSize, segmentLow, segmentHigh>>

tiers == <<eratSmall, eratMedium, eratBig>>

memory == <<ptr, acquired, released>>

sink == <<delivered, reported, startMasks, crossed>>

last == <<shrinkDiff, unmasked, written>>

vars64 == <<overflow>>

vars == <<args, pc, error, fields, window, sieve, tiers, memory, nextPrime,
          nullDeref, sink, last, vars64>>

NoPointers == [r \in Resources |-> FALSE]

NoCounts == [r \in Resources |-> 0]

Init ==
  /\ args \in Args
  /\ pc = "new"
  /\ error = "none"
  /\ start = 0 /\ stop = 0 /\ limitPreSieve = 0 /\ sqrtStop = 0
  /\ sieveSize = 0 /\ sieveLen = 0 /\ segmentLow = 0 /\ segmentHigh = 0
  /\ limitEratSmall = 0 /\ limitEratMedium = 0
  /\ sieve = {}
  /\ ptr = NoPointers /\ acquired = NoCounts /\ released = NoCounts
  /\ eratSmall = {} /\ eratMedium = {} /\ eratBig = {}
  /\ nextPrime = 0
  /\ nullDeref = FALSE
  /\ delivered = <<>> /\ reported = {} /\ startMasks = <<>> /\ crossed = <<>>
  /\ shrinkDiff = 0 /\ unmasked = {} /\ written = {}
  /\ overflow = FALSE

\* ------------------------------------------------------------- constructor

Position(r) == CHOOSE i \in 1..Len(AcquireOrder) : AcquireOrder[i] = r

\* the resources held when the allocation of fail throws ("none": no throw)
Held(fail, sq, lps, les, lem) ==
  [r \in Resources |->
     /\ Wanted(r, sq, lps, les, lem)
     /\ (fail = "none" \/ ~Wanted(fail, sq, lps, les, lem)
           \/ Position(r) < Position(fail))]

Throws(fail, sq, lps, les, lem) ==
  fail # "none" /\ Wanted(fail, sq, lps, les, lem)

Construct(fail) ==
  /\ pc = "new"
  /\ IF args.start < MIN_START \/ args.start > args.stop
     THEN /\ pc' = "failed"
          /\ error' = "precondition"
          /\ UNCHANGED <<fields, window, memory, nextPrime>>
     ELSE LET size == SieveBytes(args.sieveSize)
              low == InitialSegmentLow(args.start)
              sq == isqrt(args.stop)
              lps == args.preSieve
              les == LimitEratSmall(size)
              lem == LimitEratMedium(size)
              held == Held(fail, sq, lps, les, lem)
          IN /\ start' = args.start
             /\ stop' = args.stop
             /\ limitPreSieve' = lps
             /\ sqrtStop' = sq
             /\ sieveSize' = size
             /\ sieveLen' = size
             /\ segmentLow' = low
             /\ segmentHigh' = SegmentHighOf(low, size)
             /\ limitEratSmall' = les
             /\ limitEratMedium' = lem
             /\ ptr' = held
             /\ acquired' = [r \in Resources |-> IF held[r] THEN 1 ELSE 0]
             /\ IF Throws(fail, sq, lps, les, lem)
                THEN /\ pc' = "failed"
                     /\ error' = "allocation"
                     \* new byte_t[] throws before init(); init() catches,
                     \* runs cleanUp() and rethrows
                     /\ released' = IF fail = "sieve" THEN released
                                    ELSE cleanUp(held, released)
                     /\ nextPrime' = nextPrime
                ELSE /\ pc' = "adding"
                     /\ error' = error
                     /\ released' = released
                     /\ nextPrime' = NextPrime(MIN_START - 1)
  /\ UNCHANGED <<args, sieve, tiers, nullDeref, sink, last, vars64>>

\* ~SieveOfEratosthenes(): at the end of the run or while a failure unwinds
Destroy ==
  /\ pc \in {"adding", "shrunk", "done"}
  /\ pc' = "destroyed"
  /\ released' = cleanUp(ptr, released)
  /\ UNCHANGED <<args, error, fields, window, sieve, tiers, ptr, acquired,
                 nextPrime, nullDeref, sink, last, vars64>>

\* ------------------------------------------------------------ sieveSegment

Byte0(bits) == Window(bits, 1)

SegmentBits ==
  crossOffMultiples(preSieve(sieve, sieveSize, segmentLow, start, limitPreSieve),
                    ptr, eratSmall, eratMedium, eratBig, sieveSize, segmentLow)

\* what preSieve() did to byte 0 when it took the start mask branch
StartMaskRecord ==
  [low |-> segmentLow,
   filled |-> Byte0(doIt(sieve, 1, segmentLow, limitPreSieve)),
   masked |-> Byte0(preSieve(sieve, 1, segmentLow, start, limitPreSieve))]

Delivery == [low |-> segmentLow, size |-> sieveSize, high |-> segmentHigh]

\* sieveSegment() followed by the advance of the window
SieveSegmentAndAdvance ==
  /\ sieve' = SegmentBits
  /\ delivered' = Append(delivered, Delivery)
  /\ reported' = reported \cup DecodeAll(Window(sieve', sieveSize), segmentLow)
  /\ startMasks' = IF IsFirstSegment(segmentLow, start)
                   THEN Append(startMasks, StartMaskRecord) ELSE startMasks
  /\ crossed' = crossOffOrder(ptr)
  /\ segmentLow' = segmentLow + SegmentSpan(sieveSize)
  /\ segmentHigh' = segmentHigh + SegmentSpan(sieveSize)
  /\ UNCHANGED sieveSize

\* ------------------------------------------------------------ sieve(prime)

Route(prime) ==
  IF prime <= limitPreSieve THEN "discard"
  ELSE IF prime <= limitEratSmall THEN "eratSmall"
  ELSE IF prime <= limitEratMedium THEN "eratMedium"
  ELSE "eratBig"

\* the segments below prime^2 are sieved before the prime is stored
SieveLoop ==
  /\ pc = "adding"
  /\ nextPrime <= sqrtStop
  /\ nextPrime > limitPreSieve
  /\ segmentHigh < isquare(nextPrime)
  /\ SieveSegmentAndAdvance
  /\ UNCHANGED <<args, pc, error, fields, tiers, memory, nextPrime, nullDeref,
                 last, vars64>>

AddSievingPrime ==
  /\ pc = "adding"
  /\ nextPrime <= sqrtStop
  /\ nextPrime <= limitPreSieve \/ segmentHigh >= isquare(nextPrime)
  /\ LET to == Route(nextPrime)
         rec == SievingPrime(nextPrime, segmentLow)
     IN IF to # "discard" /\ ~ptr[to]
        THEN /\ nullDeref' = TRUE
             /\ pc' = "crashed"
             /\ UNCHANGED tiers
        ELSE /\ UNCHANGED <<nullDeref, pc>>
             /\ eratSmall' = IF to = "eratSmall" THEN eratSmall \cup {rec} ELSE eratSmall
             /\ eratMedium' = IF to = "eratMedium" THEN eratMedium \cup {rec} ELSE eratMedium
             /\ eratBig' = IF to = "eratBig" THEN eratBig \cup {rec} ELSE eratBig
  /\ nextPrime' = NextPrime(nextPrime)
  /\ UNCHANGED <<args, error, fields, window, sieve, memory, sink, last, vars64>>

\* ---------------------------------------------------------------- finish()

FinishLoop ==
  /\ pc = "adding"
  /\ nextPrime > sqrtStop
  /\ MoreSegments(segmentHigh, stop)
  /\ SieveSegmentAndAdvance
  /\ UNCHANGED <<args, pc, error, fields, tiers, memory, nextPrime, nullDeref,
                 last, vars64>>

FinishShrink ==
  /\ pc = "adding"
  /\ nextPrime > sqrtStop
  /\ ~MoreSegments(segmentHigh, stop)
  /\ pc' = "shrunk"
  /\ shrinkDiff' = ShrinkDiff(stop, segmentLow)
  /\ sieveSize' = FinalSieveSize(stop, segmentLow)
  /\ segmentHigh' = SegmentHighOf(segmentLow, sieveSize')
  /\ UNCHANGED <<args, error, fields, segmentLow, sieve, tiers, memory,
                 nextPrime, nullDeref, sink, unmasked, written, vars64>>

FinishLast ==
  /\ pc = "shrunk"
  /\ pc' = "done"
  /\ LET crossedOff == SegmentBits
         tail == ZeroFill(sieveSize)
     IN /\ unmasked' = Window(crossedOff, sieveSize)
        /\ sieve' = MaskStop(crossedOff, sieveSize, stop) \ UNION {ByteBits(j) : j \in tail}
        /\ written' = {sieveSize - 1} \cup tail
  /\ delivered' = Append(delivered, Delivery)
  /\ reported' = reported \cup DecodeAll(Window(sieve', sieveSize), segmentLow)
  /\ startMasks' = IF IsFirstSegment(segmentLow, start)
                   THEN Append(startMasks, StartMaskRecord) ELSE startMasks
  /\ crossed' = crossOffOrder(ptr)
  /\ UNCHANGED <<args, error, fields, window, tiers, memory, nextPrime,
                 nullDeref, shrinkDiff, vars64>>

Next ==
  \/ \E fail \in {"none"} \cup Resources : Construct(fail)
  \/ SieveLoop
  \/ AddSievingPrime
  \/ FinishLoop
  \/ FinishShrink
  \/ FinishLast
  \/ Destroy

Spec == Init /\ [][Next]_vars

\* ------------------------------------------------- 64 bit window arithmetic
\* A 64 bit value is <<h, m, l>> = h * 2^48 + m * 2^24 + l with m, l in
\* 0..2^24 - 1.  The exact result of an operation may have h < 0 or h >= 2^16;
\* the machine keeps it modulo 2^64 (uint64_t) or modulo 2^32 (uint_t).

LIMB == 4096 * 4096

\* the widest interval of SpecW, in segments
MaxWideSegments == 3

\* SpecW takes the stops from the largest stop down to this far below it
MaxBelow == 6

WNorm(h, m, l) ==
  LET m1 == m + (l \div LIMB)
  IN <<h + (m1 \div LIMB), m1 % LIMB, l % LIMB>>

WInt(n) == WNorm(0, 0, n)

WAdd(x, y) == WNorm(x[1] + y[1], x[2] + y[2], x[3] + y[3])

WSub(x, y) == WNorm(x[1] - y[1], x[2] - y[2], x[3] - y[3])

WLess(x, y) ==
  \/ x[1] < y[1]
  \/ x[1] = y[1] /\ x[2] < y[2]
  \/ x[1] = y[1] /\ x[2] = y[2] /\ x[3] < y[3]

\* uint64_t keeps the low 64 bits
Wrap64(x) == <<x[1] % 65536, x[2], x[3]>>

\* uint_t keeps the low 32 bits
Wrap32(x) == <<0, x[2] % 256, x[3]>>

\* 2^24 % 30 = 2^48 % 30 = 16
WMod30(x) == (x[1] * 16 + x[2] * 16 + x[3]) % NUMBERS_PER_BYTE

getByteRemainder64(n) ==
  LET r == WMod30(n)
  IN IF r <= 1 THEN r + NUMBERS_PER_BYTE ELSE r

\* the exact product sieveSize_ * NUMBERS_PER_BYTE
Times30(size) == WNorm(0, (size \div LIMB) * NUMBERS_PER_BYTE, (size % LIMB) * NUMBERS_PER_BYTE)

\* value / NUMBERS_PER_BYTE of a value below 2^32; 2^24 = 30 * 559240 + 16
Div30(x) == x[2] * 559240 + ((x[2] * 16 + x[3]) \div NUMBERS_PER_BYTE)

\* the exact results of segmentLow_ + sieveSize_ * NUMBERS_PER_BYTE + 1
SegmentHighSteps(low, size) ==
  LET product == Times30(size)
      sum == WAdd(low, Wrap32(product))
  IN <<product, sum, WAdd(Wrap64(sum), WInt(1))>>

SegmentHigh64(low, size) ==
  LET steps == SegmentHighSteps(low, size) IN Wrap64(steps[3])

SegmentHighWraps(low, size) ==
  LET steps == SegmentHighSteps(low, size)
  IN steps[1] # Wrap32(steps[1]) \/ steps[2] # Wrap64(steps[2]) \/ steps[3] # Wrap64(steps[3])

\* the exact result of x += sieveSize_ * NUMBERS_PER_BYTE
AdvanceSteps(x, size) ==
  LET product == Times30(size) IN <<product, WAdd(x, Wrap32(product))>>

Advance64(x, size) == Wrap64(AdvanceSteps(x, size)[2])

AdvanceWraps(x, size) ==
  LET steps == AdvanceSteps(x, size)
  IN steps[1] # Wrap32(steps[1]) \/ steps[2] # Wrap64(steps[2])

\* variant: the loop runs while segmentHigh_ <= stop_
MoreSegments64Inclusive(high, sp) == ~WLess(sp, high)

\* while (segmentHigh_ < stop_)
MoreSegments64(high, sp) == WLess(high, sp)

\* the exact results of (stop_ - remainder) - segmentLow_
ShrinkSteps(sp, low) ==
  LET first == WSub(sp, WInt(getByteRemainder64(sp)))
  IN <<first, WSub(Wrap64(first), low)>>

\* static_cast<uint_t>(...) / NUMBERS_PER_BYTE + 1
FinalSieveSize64(sp, low) == Div30(Wrap32(Wrap64(ShrinkSteps(sp, low)[2]))) + 1

ShrinkWraps(sp, low) ==
  LET steps == ShrinkSteps(sp, low)
  IN \/ steps[1] # Wrap64(steps[1])
     \/ steps[2] # Wrap64(steps[2])
     \/ steps[2] # Wrap32(steps[2])

\* @pre stop <= 2^64 - 2^32 * 10
MaxStop64 == <<65535, 16774656, 0>>

Below(x, n) == WSub(x, WInt(n))

WideStops ==
  {Below(MaxStop64, e) : e \in 0..MaxBelow}
    \cup {<<0, 255, 16777215>>, <<0, 16777215, 16777215>>}

WideArgs ==
  {Arg(Below(sp, n * SieveBytes(kib) * NUMBERS_PER_BYTE + o), sp, kib, 19) :
     sp \in WideStops, kib \in {1, 4096}, n \in 1..MaxWideSegments,
     o \in {-1, 0, 1, 29, 30}}
    \cup {Arg(Below(sp, o), sp, kib, 19) :
            sp \in WideStops, kib \in {1, 4096}, o \in {0, 1, 30}}
    \cup {Arg(WInt(7), <<0, 255, 16777215>>, 4096, 19)}

Init64 ==
  /\ args \in WideArgs
  /\ pc = "new"
  /\ error = "none"
  /\ start = WInt(0) /\ stop = WInt(0) /\ limitPreSieve = 0 /\ sqrtStop = 0
  /\ sieveSize = 0 /\ sieveLen = 0 /\ segmentLow = WInt(0) /\ segmentHigh = WInt(0)
  /\ limitEratSmall = 0 /\ limitEratMedium = 0
  /\ sieve = {}
  /\ ptr = NoPointers /\ acquired = NoCounts /\ released = NoCounts
  /\ eratSmall = {} /\ eratMedium = {} /\ eratBig = {}
  /\ nextPrime = 0
  /\ nullDeref = FALSE
  /\ delivered = <<>> /\ reported = {} /\ startMasks = <<>> /\ crossed = <<>>
  /\ shrinkDiff = WInt(0) /\ unmasked = {} /\ written = {}
  /\ overflow = FALSE

rest64 == <<args, error, limitPreSieve, sqrtStop, limitEratSmall, limitEratMedium,
            sieve, tiers, memory, nextPrime, nullDeref, reported, startMasks,
            crossed, unmasked, written>>

\* the constructor up to segmentHigh_
Construct64 ==
  /\ pc = "new"
  /\ ~WLess(args.start, WInt(MIN_START))
  /\ ~WLess(args.stop, args.start)
  /\ \E size \in {SieveBytes(args.sieveSize)} :
     \E exact \in {WSub(args.start, WInt(getByteRemainder64(args.start)))} :
     \E low \in {Wrap64(exact)} :
       /\ start' = args.start
       /\ stop' = args.stop
       /\ sieveSize' = size
       /\ sieveLen' = size
       /\ segmentLow' = low
       /\ segmentHigh' = SegmentHigh64(low, size)
       /\ overflow' = (overflow \/ exact # low \/ SegmentHighWraps(low, size))
  /\ pc' = "finish"
  /\ UNCHANGED <<rest64, delivered, shrinkDiff>>

\* one round of the loop of finish()
FinishLoop64 ==
  /\ pc = "finish"
  /\ MoreSegments64(segmentHigh, stop)
  /\ delivered' = Append(delivered, Delivery)
  /\ segmentLow' = Advance64(segmentLow, sieveSize)
  /\ segmentHigh' = Advance64(segmentHigh, sieveSize)
  /\ overflow' = (overflow \/ AdvanceWraps(segmentLow, sieveSize)
                           \/ AdvanceWraps(segmentHigh, sieveSize))
  /\ UNCHANGED <<rest64, pc, start, stop, sieveSize, sieveLen, shrinkDiff>>

\* the recomputation of sieveSize_ and segmentHigh_ for the last segment
FinishShrink64 ==
  /\ pc = "finish"
  /\ ~MoreSegments64(segmentHigh, stop)
  /\ pc' = "done"
  /\ \E size \in {FinalSieveSize64(stop, segmentLow)} :
     \E high \in {SegmentHigh64(segmentLow, size)} :
       /\ shrinkDiff' = ShrinkSteps(stop, segmentLow)[2]
       /\ sieveSize' = size
       /\ segmentHigh' = high
       /\ overflow' = (overflow \/ ShrinkWraps(stop, segmentLow)
                                \/ SegmentHighWraps(segmentLow, size))
       /\ delivered' = Append(delivered, [low |-> segmentLow, size |-> size,
                                          high |-> high])
  /\ UNCHANGED <<rest64, start, stop, sieveLen, segmentLow>>

Next64 ==
  \/ Construct64
  \/ FinishLoop64
  \/ FinishShrink64

\* finish() runs to its end once called
SpecW == Init64 /\ [][Next64]_vars /\ WF_vars(Next64)

\* ------------------------------------------------------------------ claims

Constructed == pc \in {"adding", "shrunk", "done", "destroyed"}

\* C1: once all sieving primes are added and finish() has run, the integers
\* decoded from the set bits of all delivered bitmaps are exactly the primes
\* in [start, stop].
C1_ReportsExactlyThePrimes ==
  pc = "done" => reported = PrimesIn(start, stop)

C1_Witness ==
  /\ pc = "done"
  /\ Len(delivered) >= 3
  /\ eratSmall # {}
  /\ Cardinality(reported) > 1000

\* C2 as stated: the sink is invoked ceil((stop - segmentLow_0) / (sieveSize*30))
\* times over the whole run.
C2_CountAsStated ==
  pc = "done" =>
    Len(delivered) = CeilDiv(stop - (start - getByteRemainder(start)), sieveLen * 30)

\* C2 amended: the sink is invoked ceil((stop - 1 - segmentLow_0) / (sieveSize*30))
\* times over the whole run.
C2_CountAmended ==
  pc = "done" =>
    Len(delivered) = CeilDiv(stop - 1 - (start - getByteRemainder(start)), sieveLen * 30)

C2_Witness ==
  /\ pc = "done"
  /\ Len(delivered) = 2
  /\ delivered[2].low + delivered[2].size * 30 + 1 = stop
  /\ delivered[2].size = sieveLen

\* C3: the delivered segments start at the initial segmentLow, every
\* segmentLow is a multiple of 30, each one exceeds its predecessor by the
\* original sieveSize * 30, and the last one reaches stop: no window is
\* skipped or delivered twice.
C3_SegmentsInOrder ==
  /\ Constructed => segmentLow % 30 = 0
  /\ pc = "adding" =>
       /\ segmentLow <= start + Len(delivered) * sieveLen * 30
       /\ start < segmentLow + 32 - Len(delivered) * sieveLen * 30
  /\ \A i \in 1..Len(delivered) :
       /\ delivered[i].low % 30 = 0
       /\ i = 1 => delivered[i].low <= start /\ start < delivered[i].low + 32
  /\ \A i \in 1..(Len(delivered) - 1) :
       /\ delivered[i + 1].low = delivered[i].low + sieveLen * 30
       /\ delivered[i].low + delivered[i].size * 30 + 1 < stop
  /\ pc = "done" =>
       LET final == delivered[Len(delivered)]
       IN /\ final.low + 2 <= stop
          /\ stop <= final.low + final.size * 30 + 1

C3_Witness ==
  /\ pc = "done"
  /\ Len(delivered) >= 3
  /\ delivered[Len(delivered)].size < sieveLen

\* C4: every acquired resource is released exactly once on every exit path;
\* a precondition failure acquires nothing; a failed construction never
\* reaches the sink.
C4_ReleasedExactlyOnce ==
  /\ \A r \in Resources : released[r] <= acquired[r] /\ acquired[r] <= 1
  /\ pc \in {"failed", "destroyed"} => released = acquired
  /\ error = "precondition" => acquired = NoCounts
  /\ pc = "failed" => delivered = <<>>
  /\ pc = "destroyed" => \A r \in {"sieve", "preSieve"} : released[r] = 1

C4_Witness ==
  /\ pc = "failed"
  /\ error = "allocation"
  /\ acquired["eratMedium"] = 1
  /\ released["eratMedium"] = 1
  /\ acquired["eratBig"] = 0

\* C5: in the final segment stop lies in the range of the last byte of the
\* shrunk bitmap, no delivered bit decodes above stop, and the stop mask
\* clears exactly the bits of the last byte that decode above stop.
C5_StopMask ==
  pc = "done" =>
    LET base == segmentLow + (sieveSize - 1) * 30
        remainder == getByteRemainder(stop)
        final == Window(sieve, sieveSize)
    IN /\ base + 2 <= stop /\ stop <= base + 31
       /\ \A k \in final : Decode(k, segmentLow) <= stop
       /\ final = {k \in unmasked : Decode(k, segmentLow) <= stop}
       /\ unmasked \ final \subseteq
            {k \in ByteBits(sieveSize - 1) : bitValues[(k % 8) + 1] > remainder}
       /\ remainder \in 2..6 => final \cap ByteBits(sieveSize - 1) = {}
       /\ remainder = 31 => final = unmasked

C5_Witness ==
  /\ pc = "done"
  /\ unmasked \ sieve # {}
  /\ sieve \cap ByteBits(sieveSize - 1) # {}
  /\ sieveSize > 1

\* C6: the start edge is masked in the first segment only; afterwards byte 0
\* has no bit below start, and every bit of byte 0 at or above start keeps
\* its pre-sieve value, or is set when start <= preSieve limit.
C6_StartMask ==
  /\ Len(startMasks) <= 1
  /\ delivered # <<>> =>
       /\ Len(startMasks) = 1
       /\ startMasks[1].low = delivered[1].low
  /\ \A i \in 1..Len(startMasks) :
       LET m == startMasks[i]
       IN /\ \A k \in m.masked : Decode(k, m.low) >= start
          /\ \A k \in 0..7 :
               Decode(k, m.low) >= start =>
                 (k \in m.masked <=> (start <= limitPreSieve \/ k \in m.filled))
          /\ \A q \in PrimesIn(start, limitPreSieve) : \E k \in m.masked : Decode(k, m.low) = q

C6_Witness ==
  /\ Len(delivered) >= 2
  /\ startMasks[1].filled # startMasks[1].masked
  /\ start <= limitPreSieve

\* C7 as stated: segmentHigh = segmentLow + sieveSize*30 - 1 in every state
\* of the driver.
C7_HighAsStated ==
  Constructed => segmentHigh = segmentLow + sieveSize * 30 - 1

\* C7 amended: segmentHigh = segmentLow + sieveSize*30 + 1 in every state of
\* the driver, the integer of the last bit of the bitmap, the window being
\* the inclusive range [segmentLow + 7, segmentLow + sieveSize*30 + 1].
C7_HighAmended ==
  Constructed =>
    /\ segmentHigh = segmentLow + sieveSize * 30 + 1
    /\ segmentHigh = Decode(8 * sieveSize - 1, segmentLow)
    /\ Decode(0, segmentLow) = segmentLow + 7
    /\ \A k \in Window(sieve, sieveSize) :
         pc = "done" => segmentLow + 7 <= Decode(k, segmentLow)
                          /\ Decode(k, segmentLow) <= segmentHigh

C7_Witness ==
  /\ pc = "shrunk"
  /\ sieveSize < sieveLen
  /\ Len(delivered) >= 2

\* C8: the final sieveSize is in 1..original sieveSize, the subtraction is
\* not negative, and every index written in the final segment is below the
\* allocated length.
C8_FinalWritesInBounds ==
  pc \in {"shrunk", "done"} =>
    /\ shrinkDiff >= 0
    /\ 1 <= sieveSize /\ sieveSize <= sieveLen
    /\ \A j \in written : 0 <= j /\ j < sieveLen
    /\ pc = "done" => (sieveSize - 1) \in written
                        /\ \A j \in sieveSize..(sieveSize + 7) :
                             (\A i \in sieveSize..j : i % 8 # 0) => j \in written

C8_Witness ==
  /\ pc = "done"
  /\ Cardinality(written) = 8
  /\ Len(delivered) >= 2

\* C9: limitPreSieve < limitEratSmall < limitEratMedium, every sieving prime
\* above limitPreSieve is stored in the tier of its magnitude and that tier
\* exists, and crossOffMultiples() invokes the existing tiers in the order
\* Small, Medium, Big.
C9_RoutedToExistingTier ==
  /\ ~nullDeref
  /\ pc # "crashed"
  /\ Constructed =>
    /\ limitPreSieve < limitEratSmall /\ limitEratSmall < limitEratMedium
    /\ \A r \in eratSmall : ptr["eratSmall"] /\ limitPreSieve < r.prime /\ r.prime <= limitEratSmall
    /\ \A r \in eratMedium : ptr["eratMedium"] /\ limitEratSmall < r.prime /\ r.prime <= limitEratMedium
    /\ \A r \in eratBig : ptr["eratBig"] /\ limitEratMedium < r.prime /\ r.prime <= sqrtStop
    /\ pc = "shrunk" =>
         {r.prime : r \in eratSmall \cup eratMedium \cup eratBig}
           = PrimesIn(limitPreSieve + 1, sqrtStop)
    /\ delivered # <<>> =>
         /\ {crossed[i] : i \in 1..Len(crossed)} = {r \in Resources \ {"sieve", "preSieve"} : ptr[r]}
         /\ crossed \in {<<>>, <<"eratSmall">>, <<"eratSmall", "eratMedium">>,
                         <<"eratSmall", "eratMedium", "eratBig">>}

C9_Witness ==
  /\ pc = "done"
  /\ eratSmall # {} /\ eratMedium # {} /\ eratBig # {}
  /\ Len(crossed) = 3

\* C10: with stop <= 2^64 - 10 * 2^32 no computation of the window wraps:
\* segmentLow and segmentHigh stay below 2^64, sieveSize * 30 and the cast
\* difference stay below 2^32, and the loop of finish() terminates.
C10_NoWrapAndTermination ==
  /\ [](/\ ~overflow
        /\ sieveSize <= 143165576
        /\ shrinkDiff[1] = 0 /\ shrinkDiff[2] < 256
        /\ pc # "new" => segmentHigh = WAdd(segmentLow, WInt(sieveSize * 30 + 1)))
  /\ <>(pc = "done")

C10_Witness ==
  /\ pc = "done"
  /\ Len(delivered) = MaxWideSegments + 1
  /\ sieveLen = 4194304
  /\ stop = MaxStop64

====
